---------------------------- MODULE Spec2Model ----------------------------
(***************************************************************************)
(* The expression parser of the Leo compiler front end                     *)
(* (compiler/parser/src/parser/expression.rs), as a state machine over a   *)
(* token stream, followed by the visitors of the AST                       *)
(* (compiler/ast/src/passes/visitor.rs) and the type checking pass         *)
(* (compiler/passes/src/type_checker/mod.rs), as a state machine over a    *)
(* program.                                                                *)
(*                                                                         *)
(* The parser object is the pair (cursor into the token stream, the flag   *)
(* disallow_circuit_construction).  Every parse function takes that pair   *)
(* (any record with fields pos and flag) and returns a result record       *)
(*   [ok, val, pos, flag]                                                  *)
(* where ok says whether the Rust function returned Ok or Err, val is the  *)
(* expression (or the error), and pos/flag are the parser object after the *)
(* call.  A `?` in the source is the test "IF ~r.ok THEN r": an error is   *)
(* handed up with the parser object as the failing call left it.  What a   *)
(* function does after a nested call returns is an operator of its own     *)
(* that takes the result of the call.                                      *)
(*                                                                         *)
(* Tokens are token kinds (the names of the Token variants); the payload   *)
(* of Int, Ident and the literals is not modelled, a leaf is identified by *)
(* its span.  A span is a range of token indices [lo, hi].                 *)
(***************************************************************************)
EXTENDS Integers, Sequences, FiniteSets, TLC

VARIABLES
    tokens,                          \* the token stream handed to the parser
    pos,                             \* the cursor: index of the next token
    disallow_circuit_construction,   \* ParserContext::disallow_circuit_construction
    prior_fuzzy_state,               \* the local of the outermost parse_expression
    result,                          \* what the entry point returned
    entry,                           \* which entry point the caller used
    entry_flag,                      \* the flag when the entry point was called
    pc,                              \* where the outermost call stands
    ast,                             \* the program handed to a pass
    trace,                           \* the handler calls of the visitor
    handler,                         \* the diagnostics sink (emitter::Handler)
    pass_result,                     \* what do_pass returned
    pass_pc                          \* where the pass stands

parser_vars == << tokens, pos, disallow_circuit_construction, prior_fuzzy_state,
                  result, entry, entry_flag, pc >>

pass_vars == << ast, trace, handler, pass_result, pass_pc >>

vars == << parser_vars, pass_vars >>

---------------------------------------------------------------------------
(* Bounds of the model *)

\* the number of free tokens appended to a context prefix
MaxBody == 3
\* the number of operators in an operand/operator chain
MaxOps == 3
\* the number of leaves of a nested binary expression of a program
MaxLeaves == 3

---------------------------------------------------------------------------
(* Token sets *)

INT_TYPES == { "U8", "U8_ws", "Field", "Group" }

TYPE_TOKENS == INT_TYPES \cup { "Address", "Bool", "Char" }

\* a type-suffix token the lexer produced after whitespace
WhitespaceSeparated == { "U8_ws" }

None == [ kind |-> "None" ]

Some(x) == [ kind |-> "Some", v |-> x ]

---------------------------------------------------------------------------
(* Spans *)

Min(a, b) == IF a <= b THEN a ELSE b

Max(a, b) == IF a >= b THEN a ELSE b

Span(lo, hi) == [ lo |-> lo, hi |-> hi ]

\* Span + Span
SpanAdd(a, b) == [ lo |-> Min(a.lo, b.lo), hi |-> Max(a.hi, b.hi) ]

---------------------------------------------------------------------------
(* Results *)

Ok(s, v) == [ ok |-> TRUE, val |-> v, pos |-> s.pos, flag |-> s.flag ]

Err(s, name) ==
    [ ok |-> FALSE, val |-> [ kind |-> "ParserError", name |-> name ],
      pos |-> s.pos, flag |-> s.flag ]

---------------------------------------------------------------------------
(* The token source *)

\* peek_token: the next token, Token::Eof at the end of the stream
peek_token(s) == IF s.pos <= Len(tokens) THEN tokens[s.pos] ELSE "Eof"

\* the span of the next token
peek_span(s) == Span(s.pos, s.pos)

\* the parser object after the next token is consumed
bump(s) == [ pos |-> s.pos + 1, flag |-> s.flag ]

\* the error of a failed expect: which one depends on whether a token is left
Unexpected(s, name) ==
    Err(s, IF s.pos > Len(tokens) THEN "unexpected_eof" ELSE name)

\* eat: whether the next token is `token`, which is then consumed with bump
eat(s, token) == s.pos <= Len(tokens) /\ tokens[s.pos] = token

\* eat_any: whether the next token is one of `set`, then consumed with bump
eat_any(s, set) == s.pos <= Len(tokens) /\ tokens[s.pos] \in set

\* the payload of Token::Ident is not modelled: every Ident has the name "ident"
Identifier(name, span) == [ kind |-> "Identifier", name |-> name, span |-> span ]

\* eat_identifier: whether the next token is an Ident
eat_identifier(s) == eat(s, "Ident")

\* eat_int: whether the next token is an Int
eat_int(s) == eat(s, "Int")

\* expect_ident: consume an Ident, or fail without consuming
expect_ident(s) ==
    IF eat_identifier(s) THEN Ok(bump(s), Identifier("ident", peek_span(s)))
    ELSE Unexpected(s, "unexpected_str")

\* assert_no_whitespace(left_span, right_span, left, right): whether the
\* literal and its type suffix are adjacent
assert_no_whitespace(type_token) == type_token \notin WhitespaceSeparated

---------------------------------------------------------------------------
(* The expression nodes (leo_ast::Expression), each with its span *)

Value(variant, span) == [ kind |-> "Value", variant |-> variant, span |-> span ]

CircuitVariableInitializer(identifier, expression) ==
    [ identifier |-> identifier, expression |-> expression ]

CircuitInit(name, members, span) ==
    [ kind |-> "CircuitInit", name |-> name, members |-> members, span |-> span ]

TupleInit(elements, span) ==
    [ kind |-> "TupleInit", elements |-> elements, span |-> span ]

ArrayInline(elements, span) ==
    [ kind |-> "ArrayInline", elements |-> elements, span |-> span ]

ArrayInit(element, dimensions, span) ==
    [ kind |-> "ArrayInit", element |-> element, dimensions |-> dimensions,
      span |-> span ]

\* SpreadOrExpression::Spread / SpreadOrExpression::Expression
SpreadOrExpression(variant, expression) ==
    [ variant |-> variant, expression |-> expression ]

Binary(op, left, right, span) ==
    [ kind |-> "Binary", op |-> op, left |-> left, right |-> right, span |-> span ]

Unary(op, inner, span) ==
    [ kind |-> "Unary", op |-> op, inner |-> inner, span |-> span ]

Ternary(condition, if_true, if_false, span) ==
    [ kind |-> "Ternary", condition |-> condition, if_true |-> if_true,
      if_false |-> if_false, span |-> span ]

Cast(inner, target_type, span) ==
    [ kind |-> "Cast", inner |-> inner, target_type |-> target_type, span |-> span ]

Call(function, arguments, span) ==
    [ kind |-> "Call", function |-> function, arguments |-> arguments,
      span |-> span ]

ArrayRangeAccess(array, left, right, span) ==
    [ kind |-> "ArrayRange", array |-> array, left |-> left, right |-> right,
      span |-> span ]

ArrayAccess(array, index, span) ==
    [ kind |-> "Array", array |-> array, index |-> index, span |-> span ]

MemberAccess(inner, name, span) ==
    [ kind |-> "Member", inner |-> inner, name |-> name, span |-> span ]

TupleAccess(tuple, index, span) ==
    [ kind |-> "Tuple", tuple |-> tuple, index |-> index, span |-> span ]

StaticAccess(inner, name, span) ==
    [ kind |-> "Static", inner |-> inner, name |-> name, span |-> span ]

---------------------------------------------------------------------------
(* Helpers of the parser context that expression.rs calls *)

\* f(self), for a parse function f handed over as a closure or a method: the
\* function is named and called by its name
RECURSIVE call(_, _)

\* parse_list(open, close, sep, inner): a list that may end in a separator
parse_list(s, open, close, sep, inner) ==
    LET RECURSIVE loop(_, _)
        pushed(list, elem) ==
            IF ~elem.ok THEN elem
            ELSE IF eat(elem, sep) THEN loop(bump(elem), Append(list, elem.val))
            ELSE Ok(elem, Append(list, elem.val))
        loop(p, list) ==
            IF p.pos > Len(tokens) THEN Err(p, "unexpected_eof")
            ELSE IF tokens[p.pos] = close THEN Ok(p, list)
            ELSE pushed(list, call(inner, p))
        closed(open_span, body) ==
            IF ~body.ok THEN body
            ELSE IF eat(body, close)
                 THEN Ok(bump(body), [ list |-> body.val,
                                       span |-> SpanAdd(open_span, peek_span(body)) ])
                 ELSE Unexpected(body, "unexpected")
    IN  IF eat(s, open) THEN closed(peek_span(s), loop(bump(s), << >>))
        ELSE Unexpected(s, "unexpected")

\* parse_type: a type keyword or the name of a circuit
parse_type(s) ==
    IF eat_any(s, TYPE_TOKENS \cup { "Ident" })
    THEN Ok(bump(s), [ type |-> tokens[s.pos], span |-> peek_span(s) ])
    ELSE Unexpected(s, "unexpected_token")

\* eat_group_partial: the token streams of the model hold no affine group
\* coordinate pair `(x, y)group`, so the lookahead finds none
eat_group_partial(s) == None

\* one dimension of parse_array_dimensions
array_dimension(s) ==
    IF eat_int(s) THEN Ok(bump(s), peek_span(s)) ELSE Unexpected(s, "unexpected")

\* the dimensions of a parenthesized list must not be empty
array_tuple_dimensions(dims) ==
    IF ~dims.ok THEN dims
    ELSE IF dims.val.list = << >> THEN Err(dims, "array_tuple_dimensions_empty")
    ELSE Ok(dims, dims.val.list)

\* parse_array_dimensions: one dimension, or a parenthesized list of them
parse_array_dimensions(s) ==
    IF eat_int(s) THEN Ok(bump(s), << peek_span(s) >>)
    ELSE array_tuple_dimensions(
             parse_list(s, "LeftParen", "RightParen", "Comma", "array_dimension"))

---------------------------------------------------------------------------
(* The parser: expression.rs *)

RECURSIVE parse_expression(_)
RECURSIVE parse_conditional_expression(_)

\* parse_spread_or_expression: the variant around the parsed expression
spread_or_expression(variant, expr) ==
    IF expr.ok THEN Ok(expr, SpreadOrExpression(variant, expr.val)) ELSE expr

\* parse_spread_or_expression
parse_spread_or_expression(s) ==
    IF eat(s, "DotDotDot")
    THEN spread_or_expression("Spread", parse_expression(bump(s)))
    ELSE spread_or_expression("Expression", parse_expression(s))

\* a circuit member with a value: `identifier: expression`
circuit_member_value(identifier, expression) ==
    IF expression.ok
    THEN Ok(expression, CircuitVariableInitializer(identifier.val,
                                                   Some(expression.val)))
    ELSE expression

\* a circuit member after its identifier: the value is optional
circuit_member(identifier) ==
    IF ~identifier.ok THEN identifier
    ELSE IF eat(identifier, "Colon")
         THEN circuit_member_value(identifier, parse_expression(bump(identifier)))
         ELSE Ok(identifier, CircuitVariableInitializer(identifier.val, None))

\* the closure parse_circuit_expression hands to parse_list
circuit_variable_initializer(p) == circuit_member(expect_ident(p))

\* parse_circuit_expression: the node around the parsed members
circuit_init(identifier, members) ==
    IF members.ok
    THEN Ok(members, CircuitInit(identifier, members.val.list,
                                 SpanAdd(identifier.span, members.val.span)))
    ELSE members

\* parse_circuit_expression
parse_circuit_expression(s, identifier) ==
    circuit_init(identifier,
                 parse_list(s, "LeftCurly", "RightCurly", "Comma",
                            "circuit_variable_initializer"))

\* the loop of parse_tuple_expression: the elements up to the closing `)`
RECURSIVE tuple_elements(_, _)

\* the loop of parse_tuple_expression after an element is parsed
tuple_push(args, expr) ==
    IF ~expr.ok THEN expr
    ELSE IF eat(expr, "Comma")
         THEN tuple_elements(bump(expr), Append(args, expr.val))
    ELSE IF eat(expr, "RightParen")
         THEN Ok(bump(expr), [ args |-> Append(args, expr.val),
                               end_span |-> peek_span(expr) ])
    ELSE Unexpected(expr, "unexpected")

tuple_elements(s, args) ==
    IF eat(s, "RightParen")
    THEN Ok(bump(s), [ args |-> args, end_span |-> peek_span(s) ])
    ELSE tuple_push(args, parse_expression(s))

\* a slip of parse_tuple_expression: a single element is not taken out
tuple_of_wrapped(span, list) ==
    IF ~list.ok THEN list
    ELSE Ok(list, TupleInit(list.val.args, SpanAdd(span, list.val.end_span)))

\* the end of parse_tuple_expression: a single element is returned as it is
tuple_of(span, list) ==
    IF ~list.ok THEN list
    ELSE IF Len(list.val.args) = 1 THEN Ok(list, list.val.args[1])
    ELSE Ok(list, TupleInit(list.val.args, SpanAdd(span, list.val.end_span)))

\* parse_tuple_expression: s is the parser after the `(` at `span`
parse_tuple_expression(s, span) ==
    IF eat_group_partial(s) = None
    THEN tuple_of(span, tuple_elements(s, << >>))
    ELSE Ok(s, Value("Group", span))

\* the loop of parse_array_expression that collects the inline elements
RECURSIVE array_elements(_, _)

\* the loop of parse_array_expression after an element is parsed
array_push(elements, element) ==
    IF ~element.ok THEN element
    ELSE IF eat(element, "Comma")
         THEN array_elements(bump(element), Append(elements, element.val))
    ELSE IF eat(element, "RightSquare")
         THEN Ok(bump(element), [ elements |-> Append(elements, element.val),
                                  end_span |-> peek_span(element) ])
    ELSE Unexpected(element, "unexpected")

\* the iteration of the loop when one more element has to follow
array_element(s, elements) == array_push(elements, parse_spread_or_expression(s))

array_elements(s, elements) ==
    IF eat(s, "RightSquare")
    THEN Ok(bump(s), [ elements |-> elements, end_span |-> peek_span(s) ])
    ELSE IF Len(elements) # 1 THEN array_element(s, elements)
    ELSE IF ~eat(s, "Comma") THEN Unexpected(s, "unexpected")
    ELSE IF eat(bump(s), "RightSquare")
         THEN Ok(bump(bump(s)), [ elements |-> elements,
                                  end_span |-> peek_span(bump(s)) ])
    ELSE array_element(bump(s), elements)

\* the inline array around the collected elements
array_inline(span, list) ==
    IF list.ok
    THEN Ok(list, ArrayInline(list.val.elements, SpanAdd(span, list.val.end_span)))
    ELSE list

\* a repeat array that takes a spread as its element
array_init_of_spread(span, first, dimensions) ==
    IF ~dimensions.ok THEN Err(dimensions, "unable_to_parse_array_dimensions")
    ELSE IF ~eat(dimensions, "RightSquare") THEN Unexpected(dimensions, "unexpected")
    ELSE Ok(bump(dimensions),
            ArrayInit(first.val.expression, dimensions.val,
                      SpanAdd(span, peek_span(dimensions))))

\* the repeat array `[first; dimensions]` once the dimensions are parsed: the
\* closing `]` is expected before the spread is rejected
array_init(span, first, dimensions) ==
    IF ~dimensions.ok THEN Err(dimensions, "unable_to_parse_array_dimensions")
    ELSE IF ~eat(dimensions, "RightSquare") THEN Unexpected(dimensions, "unexpected")
    ELSE IF first.val.variant = "Spread"
         THEN Err(bump(dimensions), "spread_in_array_init")
    ELSE Ok(bump(dimensions),
            ArrayInit(first.val.expression, dimensions.val,
                      SpanAdd(span, peek_span(dimensions))))

\* parse_array_expression after the first element
array_first(span, first) ==
    IF ~first.ok THEN first
    ELSE IF eat(first, "Semicolon")
         THEN array_init(span, first, parse_array_dimensions(bump(first)))
    ELSE array_inline(span, array_elements(first, << first.val >>))

\* parse_array_expression: s is the parser after the `[` at `span`
parse_array_expression(s, span) ==
    IF eat(s, "RightSquare")
    THEN Ok(bump(s), ArrayInline(<< >>, SpanAdd(span, peek_span(s))))
    ELSE array_first(span, parse_spread_or_expression(s))

\* a slip of identifier_or_circuit: the flag is not looked at
identifier_or_circuit_unguarded(s, ident) ==
    IF peek_token(s) = "LeftCurly"
    THEN parse_circuit_expression(s, ident)
    ELSE Ok(s, ident)

\* an identifier that never starts a circuit init
identifier_or_circuit_plain(s, ident) == Ok(s, ident)

\* Token::Ident and Token::BigSelf in parse_primary_expression: a circuit
\* init when the flag allows it and `{` follows, the identifier otherwise
identifier_or_circuit(s, ident) ==
    IF ~s.flag /\ peek_token(s) = "LeftCurly"
    THEN parse_circuit_expression(s, ident)
    ELSE Ok(s, ident)

\* the three typed arms of Token::Int: s is the parser after the type token
typed_literal(s, type_, span) ==
    IF ~assert_no_whitespace(type_) THEN Err(s, "unexpected_whitespace")
    ELSE Ok(s, Value(CASE type_ = "Field" -> "Field"
                       [] type_ = "Group" -> "Group"
                       [] OTHER -> "Integer", span))

\* Token::Int in parse_primary_expression: s is the parser after the literal
integer_literal(s, span) ==
    IF eat_any(s, INT_TYPES)
    THEN typed_literal(bump(s), tokens[s.pos], SpanAdd(span, peek_span(s)))
    ELSE Ok(s, Value("Implicit", span))

\* the match of parse_primary_expression: s is the parser after `token`
primary_of(s, token, span) ==
    CASE token = "Int" -> integer_literal(s, span)
      [] token \in { "True", "False" } -> Ok(s, Value("Boolean", span))
      [] token = "AddressLit" -> Ok(s, Value("Address", span))
      [] token = "CharLit" -> Ok(s, Value("Char", span))
      [] token = "StringLit" -> Ok(s, Value("String", span))
      [] token = "LeftParen" -> parse_tuple_expression(s, span)
      [] token = "LeftSquare" -> parse_array_expression(s, span)
      [] token = "Ident" -> identifier_or_circuit(s, Identifier("ident", span))
      [] token = "BigSelf" -> identifier_or_circuit(s, Identifier("SelfUpper", span))
      [] token = "LittleSelf" -> Ok(s, Identifier("SelfLower", span))
      [] token = "Input" -> Ok(s, Identifier("input", span))
      [] token \in TYPE_TOKENS -> Ok(s, Identifier(token, span))
      [] OTHER -> Err(s, "unexpected_str")

\* a primary expression that consumes the token only of `(` and of `[`
parse_primary_expression_peeking(s) ==
    IF s.pos > Len(tokens) THEN Err(s, "unexpected_eof")
    ELSE IF tokens[s.pos] \in { "LeftParen", "LeftSquare" }
         THEN primary_of(bump(s), tokens[s.pos], peek_span(s))
    ELSE primary_of(s, tokens[s.pos], peek_span(s))

\* parse_primary_expression
parse_primary_expression(s) ==
    IF s.pos > Len(tokens) THEN Err(s, "unexpected_eof")
    ELSE primary_of(bump(s), tokens[s.pos], peek_span(s))

\* Some(Box::new(self.parse_expression()?))
some_expression(expr) == IF expr.ok THEN Ok(expr, Some(expr.val)) ELSE expr

\* a right bound that is an expression whatever follows `..`
range_right_bound_required(s) == some_expression(parse_expression(s))

\* the right bound of a range: absent when `]` follows
range_right_bound(s) ==
    IF peek_token(s) # "RightSquare" THEN some_expression(parse_expression(s))
    ELSE Ok(s, None)

\* the end of a range access `expr[left..right]`
range_access(expr, left, right) ==
    IF ~right.ok THEN right
    ELSE IF eat(right, "RightSquare")
         THEN Ok(bump(right),
                 ArrayRangeAccess(expr.val, left, right.val,
                                  SpanAdd(expr.val.span, peek_span(right))))
    ELSE Unexpected(right, "unexpected")

\* Token::LeftSquare after the first expression is parsed
array_access(expr, left) ==
    IF ~left.ok THEN left
    ELSE IF eat(left, "DotDot")
         THEN range_access(expr, Some(left.val), range_right_bound(bump(left)))
    ELSE IF eat(left, "RightSquare")
         THEN Ok(bump(left), ArrayAccess(expr.val, left.val,
                                         SpanAdd(expr.val.span, peek_span(left))))
    ELSE Unexpected(left, "unexpected")

\* Token::LeftSquare in parse_postfix_expression: s is the parser after `[`
postfix_left_square(expr, s) ==
    IF eat(s, "DotDot") THEN range_access(expr, None, range_right_bound(bump(s)))
    ELSE array_access(expr, parse_expression(s))

\* Token::Dot in parse_postfix_expression: s is the parser after `.`
postfix_dot(expr, s) ==
    IF eat_identifier(s)
    THEN Ok(bump(s), MemberAccess(expr.val, Identifier("ident", peek_span(s)),
                                  SpanAdd(expr.val.span, peek_span(s))))
    ELSE IF eat_int(s)
    THEN Ok(bump(s), TupleAccess(expr.val, peek_span(s),
                                 SpanAdd(expr.val.span, peek_span(s))))
    ELSE Unexpected(s, "unexpected_str")

\* the loop of Token::LeftParen: the arguments up to the closing `)`
RECURSIVE call_arguments(_, _)

\* a slip of the loop of Token::LeftParen: an argument has to follow a comma
RECURSIVE call_push_strict(_, _)
call_push_strict(arguments, expr) ==
    IF ~expr.ok THEN expr
    ELSE IF eat(expr, "Comma")
         THEN call_push_strict(Append(arguments, expr.val),
                               parse_expression(bump(expr)))
    ELSE IF eat(expr, "RightParen")
         THEN Ok(bump(expr), [ arguments |-> Append(arguments, expr.val),
                               end_span |-> peek_span(expr) ])
    ELSE Unexpected(expr, "unexpected")

\* the loop of Token::LeftParen after an argument is parsed
call_push(arguments, expr) ==
    IF ~expr.ok THEN expr
    ELSE IF eat(expr, "Comma")
         THEN call_arguments(bump(expr), Append(arguments, expr.val))
    ELSE IF eat(expr, "RightParen")
         THEN Ok(bump(expr), [ arguments |-> Append(arguments, expr.val),
                               end_span |-> peek_span(expr) ])
    ELSE Unexpected(expr, "unexpected")

call_arguments(s, arguments) ==
    IF eat(s, "RightParen")
    THEN Ok(bump(s), [ arguments |-> arguments, end_span |-> peek_span(s) ])
    ELSE call_push(arguments, parse_expression(s))

\* the call around the collected arguments
call_of(expr, list) ==
    IF list.ok
    THEN Ok(list, Call(expr.val, list.val.arguments,
                       SpanAdd(expr.val.span, list.val.end_span)))
    ELSE list

\* Token::LeftParen in parse_postfix_expression: s is the parser after `(`
postfix_left_paren(expr, s) == call_of(expr, call_arguments(s, << >>))

\* the static access around the expected identifier
static_access(expr, ident) ==
    IF ident.ok
    THEN Ok(ident, StaticAccess(expr.val, ident.val,
                                SpanAdd(expr.val.span, ident.val.span)))
    ELSE ident

\* Token::DoubleColon in parse_postfix_expression: s is the parser after `::`
postfix_double_colon(expr, s) == static_access(expr, expect_ident(s))

\* the loop of parse_postfix_expression, on the result parsed so far
RECURSIVE postfix_loop(_)
postfix_loop(expr) ==
    IF ~expr.ok THEN expr
    ELSE CASE peek_token(expr) = "LeftSquare" ->
                  postfix_loop(postfix_left_square(expr, bump(expr)))
           [] peek_token(expr) = "Dot" ->
                  postfix_loop(postfix_dot(expr, bump(expr)))
           [] peek_token(expr) = "LeftParen" ->
                  postfix_loop(postfix_left_paren(expr, bump(expr)))
           [] peek_token(expr) = "DoubleColon" ->
                  postfix_loop(postfix_double_colon(expr, bump(expr)))
           [] OTHER -> expr

\* parse_postfix_expression
parse_postfix_expression(s) == postfix_loop(parse_primary_expression(s))

\* the first loop of parse_unary_expression: the prefix operators
RECURSIVE unary_ops(_, _)
unary_ops(s, ops) ==
    IF eat_any(s, { "Not", "Minus" })
    THEN unary_ops(bump(s), Append(ops, [ token |-> tokens[s.pos],
                                          span |-> peek_span(s) ]))
    ELSE Ok(s, ops)

\* the second loop of parse_unary_expression: wrap from the last operator
RECURSIVE unary_wrap(_, _, _)
unary_wrap(ops, n, inner) ==
    IF n = 0 THEN inner
    ELSE unary_wrap(ops, n - 1,
                    Unary(IF ops[n].token = "Not" THEN "Not" ELSE "Negate",
                          inner, SpanAdd(ops[n].span, inner.span)))

\* parse_unary_expression once the operand is parsed
unary_of(ops, inner) ==
    IF inner.ok THEN Ok(inner, unary_wrap(ops.val, Len(ops.val), inner.val))
    ELSE inner

\* parse_unary_expression once the operators are consumed
unary_operand(ops) == unary_of(ops, parse_postfix_expression(ops))

\* parse_unary_expression
parse_unary_expression(s) == unary_operand(unary_ops(s, << >>))

\* the body of the loop of parse_cast_expression once the type is parsed
cast_of(expr, type_) ==
    IF type_.ok
    THEN Ok(type_, Cast(expr.val, type_.val.type,
                        SpanAdd(expr.val.span, type_.val.span)))
    ELSE type_

\* the loop of parse_cast_expression, on the result parsed so far
RECURSIVE cast_loop(_)
cast_loop(expr) ==
    IF expr.ok /\ peek_token(expr) = "As"
    THEN cast_loop(cast_of(expr, parse_type(bump(expr))))
    ELSE expr

\* parse_cast_expression
parse_cast_expression(s) == cast_loop(parse_unary_expression(s))

\* a slip of bin_expr: the span of the left operand is taken for the whole
bin_expr_left_span(left, right, op) == Binary(op, left, right, left.span)

\* bin_expr
bin_expr(left, right, op) == Binary(op, left, right, SpanAdd(left.span, right.span))

\* expr = Self::bin_expr(expr, right?, op)
bin_of(expr, right, op) ==
    IF right.ok THEN Ok(right, bin_expr(expr.val, right.val, op)) ELSE right

\* the loop of parse_bin_expr, on the result parsed so far
RECURSIVE parse_bin_loop(_, _, _, _)
parse_bin_loop(expr, token, op, f) ==
    IF expr.ok /\ peek_token(expr) = token
    THEN parse_bin_loop(bin_of(expr, call(f, bump(expr)), op), token, op, f)
    ELSE expr

\* parse_bin_expr
parse_bin_expr(s, token, op, f) == parse_bin_loop(call(f, s), token, op, f)

\* the match of an operator token to its BinaryOperation
BinaryOperation(token) ==
    CASE token = "Eq" -> "Eq"
      [] token = "NotEq" -> "Ne"
      [] token = "Lt" -> "Lt"
      [] token = "LtEq" -> "Le"
      [] token = "Gt" -> "Gt"
      [] token = "GtEq" -> "Ge"
      [] token = "Add" -> "Add"
      [] token = "Minus" -> "Sub"
      [] token = "Mul" -> "Mul"
      [] token = "Div" -> "Div"

RECURSIVE parse_exponential_expression(_)

\* a slip of parse_exponential_expression: a loop, as at the other levels
RECURSIVE exponential_loop(_)
exponential_loop(expr) ==
    IF expr.ok /\ peek_token(expr) = "Exp"
    THEN exponential_loop(bin_of(expr, parse_cast_expression(bump(expr)), "Pow"))
    ELSE expr

\* the `if` of parse_exponential_expression, on the parsed left operand
exponential_right(expr) ==
    IF expr.ok /\ peek_token(expr) = "Exp"
    THEN bin_of(expr, parse_exponential_expression(bump(expr)), "Pow")
    ELSE expr

\* parse_exponential_expression
parse_exponential_expression(s) == exponential_right(parse_cast_expression(s))

\* the loop of parse_multiplicative_expression, on the result parsed so far
RECURSIVE multiplicative_loop(_)
multiplicative_loop(expr) ==
    IF expr.ok /\ peek_token(expr) \in { "Mul", "Div" }
    THEN multiplicative_loop(
             bin_of(expr, parse_exponential_expression(bump(expr)),
                    BinaryOperation(peek_token(expr))))
    ELSE expr

\* parse_multiplicative_expression
parse_multiplicative_expression(s) ==
    multiplicative_loop(parse_exponential_expression(s))

\* a slip of parse_additive_expression: the right operand is the rest of the
\* chain
RECURSIVE additive_recursion(_)
additive_recursion(expr) ==
    IF expr.ok /\ peek_token(expr) \in { "Add", "Minus" }
    THEN bin_of(expr,
                additive_recursion(parse_multiplicative_expression(bump(expr))),
                BinaryOperation(peek_token(expr)))
    ELSE expr

\* the loop of parse_additive_expression, on the result parsed so far
RECURSIVE additive_loop(_)
additive_loop(expr) ==
    IF expr.ok /\ peek_token(expr) \in { "Add", "Minus" }
    THEN additive_loop(
             bin_of(expr, parse_multiplicative_expression(bump(expr)),
                    BinaryOperation(peek_token(expr))))
    ELSE expr

\* a slip of parse_additive_expression: the first operand is parsed one
\* level too high
parse_additive_expression_skipping(s) ==
    additive_loop(parse_exponential_expression(s))

\* parse_additive_expression
parse_additive_expression(s) == additive_loop(parse_multiplicative_expression(s))

\* the loop of parse_ordering_expression, on the result parsed so far
RECURSIVE ordering_loop(_)
ordering_loop(expr) ==
    IF expr.ok /\ peek_token(expr) \in { "Lt", "LtEq", "Gt", "GtEq" }
    THEN ordering_loop(
             bin_of(expr, parse_additive_expression(bump(expr)),
                    BinaryOperation(peek_token(expr))))
    ELSE expr

\* parse_ordering_expression
parse_ordering_expression(s) == ordering_loop(parse_additive_expression(s))

\* the `if` of parse_equality_expression, on the parsed left operand
equality_right(expr) ==
    IF expr.ok /\ peek_token(expr) \in { "Eq", "NotEq" }
    THEN bin_of(expr, parse_ordering_expression(bump(expr)),
                BinaryOperation(peek_token(expr)))
    ELSE expr

\* parse_equality_expression
parse_equality_expression(s) == equality_right(parse_ordering_expression(s))

\* parse_conjunctive_expression
RECURSIVE parse_conjunctive_expression(_)
parse_conjunctive_expression(s) ==
    parse_bin_expr(s, "And", "And", "parse_equality_expression")

\* parse_disjunctive_expression
parse_disjunctive_expression(s) ==
    parse_bin_expr(s, "Or", "Or", "parse_conjunctive_expression")

\* the ternary once the else-branch is parsed
conditional_of(expr, if_true, if_false) ==
    IF if_false.ok
    THEN Ok(if_false, Ternary(expr.val, if_true.val, if_false.val,
                              SpanAdd(expr.val.span, if_false.val.span)))
    ELSE if_false

\* a slip of parse_conditional_expression: the else-branch is parsed one
\* level higher, as an operand, not as a conditional expression
conditional_else_operand(expr, if_true) ==
    IF ~if_true.ok THEN if_true
    ELSE IF eat(if_true, "Colon")
         THEN conditional_of(expr, if_true,
                             parse_disjunctive_expression(bump(if_true)))
    ELSE Unexpected(if_true, "unexpected")

\* the ternary once the true-branch is parsed: `:` and the else-branch
conditional_else(expr, if_true) ==
    IF ~if_true.ok THEN if_true
    ELSE IF eat(if_true, "Colon")
         THEN conditional_of(expr, if_true,
                             parse_conditional_expression(bump(if_true)))
    ELSE Unexpected(if_true, "unexpected")

\* the `if` of parse_conditional_expression, on the parsed condition
conditional_rest(expr) ==
    IF expr.ok /\ peek_token(expr) = "Question"
    THEN conditional_else(expr, parse_expression(bump(expr)))
    ELSE expr

\* parse_conditional_expression
parse_conditional_expression(s) ==
    conditional_rest(parse_disjunctive_expression(s))

\* a slip of parse_expression: the flag is saved but not cleared
parse_expression_call_uncleared(s) == parse_conditional_expression(s)

\* parse_expression up to the return of the nested call: the flag is cleared
parse_expression_call(s) ==
    parse_conditional_expression([ pos |-> s.pos, flag |-> FALSE ])

\* a slip of parse_expression: the flag is not put back
restore_prior_state_skipped(r, prior) == r

\* parse_expression after the nested call: the flag is put back, the result
\* is returned whether it is Ok or Err
restore_prior_state(r, prior) == [ r EXCEPT !.flag = prior ]

\* parse_expression
parse_expression(s) == restore_prior_state(parse_expression_call(s), s.flag)

call(f, s) ==
    CASE f = "parse_conjunctive_expression" -> parse_conjunctive_expression(s)
      [] f = "parse_equality_expression" -> parse_equality_expression(s)
      [] f = "circuit_variable_initializer" -> circuit_variable_initializer(s)
      [] f = "array_dimension" -> array_dimension(s)

---------------------------------------------------------------------------
(* The statement and program nodes the visitors walk (leo_ast) *)

\* Expression::Err
ErrExpression(span) == [ kind |-> "Err", span |-> span ]

ReturnStatement(expression) == [ kind |-> "Return", expression |-> expression ]

DefinitionStatement(value) == [ kind |-> "Definition", value |-> value ]

AssignStatement(value) == [ kind |-> "Assign", value |-> value ]

\* next is None or Some(statement)
ConditionalStatement(condition, block, next) ==
    [ kind |-> "Conditional", condition |-> condition, block |-> block,
      next |-> next ]

IterationStatement(start, stop, block) ==
    [ kind |-> "Iteration", start |-> start, stop |-> stop, block |-> block ]

\* ConsoleFunction::Assert(expression)
ConsoleAssert(expression) == [ variant |-> "Assert", expression |-> expression ]

\* ConsoleFunction::Error(fmt) and ConsoleFunction::Log(fmt), with fmt.parameters
ConsoleFormat(variant, parameters) ==
    [ variant |-> variant, parameters |-> parameters ]

ConsoleStatement(function) == [ kind |-> "Console", function |-> function ]

Block(statements) == [ kind |-> "Block", statements |-> statements ]

Function(block) == [ kind |-> "Function", block |-> block ]

\* functions: the values of the map of the program, in its order
Program(functions) == [ kind |-> "Program", functions |-> functions ]

---------------------------------------------------------------------------
(* The visitors: ast/src/passes/visitor.rs                                 *)
(*                                                                         *)
(* A visitor is modelled by the trace of its handler calls: every handler  *)
(* takes the trace so far and returns the trace it leaves.  An expression  *)
(* handler adds an event when it is called and one, with its output, when  *)
(* it returns; a statement handler returns nothing and adds the event of   *)
(* its call.  AdditionalInput, which the default handlers only hand on, is *)
(* not modelled.                                                           *)

enter(v, name, input) ==
    Append(v, [ event |-> "call", handler |-> name, node |-> input ])

leave(v, name, input, output) ==
    Append(v, [ event |-> "return", handler |-> name, node |-> input,
                output |-> output ])

RECURSIVE visit_expression(_, _)
RECURSIVE visit_statement(_, _)

\* input.iter().for_each(|expr| self.visit_expression(expr, ..))
RECURSIVE visit_expressions(_, _)
visit_expressions(v, exprs) ==
    IF exprs = << >> THEN v
    ELSE visit_expressions(visit_expression(v, Head(exprs)), Tail(exprs))

visit_identifier(v, input) ==
    leave(enter(v, "visit_identifier", input), "visit_identifier", input, None)

visit_value(v, input) ==
    leave(enter(v, "visit_value", input), "visit_value", input, None)

\* a binary handler that stops after the left operand
visit_binary_left_only(v, input) ==
    leave(visit_expression(enter(v, "visit_binary", input), input.left),
          "visit_binary", input, None)

visit_binary(v, input) ==
    leave(visit_expression(
              visit_expression(enter(v, "visit_binary", input), input.left),
              input.right),
          "visit_binary", input, None)

visit_unary(v, input) ==
    leave(visit_expression(enter(v, "visit_unary", input), input.inner),
          "visit_unary", input, None)

visit_ternary(v, input) ==
    leave(visit_expression(
              visit_expression(
                  visit_expression(enter(v, "visit_ternary", input),
                                   input.condition),
                  input.if_true),
              input.if_false),
          "visit_ternary", input, None)

\* only the arguments are visited
visit_call(v, input) ==
    leave(visit_expressions(enter(v, "visit_call", input), input.arguments),
          "visit_call", input, None)

visit_err(v, input) ==
    leave(enter(v, "visit_err", input), "visit_err", input, None)

visit_expression(v, input) ==
    CASE input.kind = "Identifier" -> visit_identifier(v, input)
      [] input.kind = "Value" -> visit_value(v, input)
      [] input.kind = "Binary" -> visit_binary(v, input)
      [] input.kind = "Unary" -> visit_unary(v, input)
      [] input.kind = "Ternary" -> visit_ternary(v, input)
      [] input.kind = "Call" -> visit_call(v, input)
      [] input.kind = "Err" -> visit_err(v, input)

\* input.statements.iter().for_each(|stmt| self.visit_statement(stmt))
RECURSIVE visit_statements(_, _)
visit_statements(v, stmts) ==
    IF stmts = << >> THEN v
    ELSE visit_statements(visit_statement(v, Head(stmts)), Tail(stmts))

visit_block(v, input) ==
    visit_statements(enter(v, "visit_block", input), input.statements)

visit_return(v, input) ==
    visit_expression(enter(v, "visit_return", input), input.expression)

visit_definition(v, input) ==
    visit_expression(enter(v, "visit_definition", input), input.value)

visit_assign(v, input) ==
    visit_expression(enter(v, "visit_assign", input), input.value)

\* if let Some(s) = input.next.as_ref() { self.visit_statement(s) }
visit_next(v, next) == IF next = None THEN v ELSE visit_statement(v, next.v)

\* a conditional handler that leaves out the chained statement
visit_conditional_without_next(v, input) ==
    visit_block(visit_expression(enter(v, "visit_conditional", input),
                                 input.condition),
                input.block)

visit_conditional(v, input) ==
    visit_next(visit_block(visit_expression(
                               enter(v, "visit_conditional", input),
                               input.condition),
                           input.block),
               input.next)

visit_iteration(v, input) ==
    visit_block(visit_expression(
                    visit_expression(enter(v, "visit_iteration", input),
                                     input.start),
                    input.stop),
                input.block)

\* the match on input.function
visit_console_function(v, function) ==
    IF function.variant = "Assert" THEN visit_expression(v, function.expression)
    ELSE visit_expressions(v, function.parameters)

visit_console(v, input) ==
    visit_console_function(enter(v, "visit_console", input), input.function)

visit_statement(v, input) ==
    CASE input.kind = "Return" -> visit_return(v, input)
      [] input.kind = "Definition" -> visit_definition(v, input)
      [] input.kind = "Assign" -> visit_assign(v, input)
      [] input.kind = "Conditional" -> visit_conditional(v, input)
      [] input.kind = "Iteration" -> visit_iteration(v, input)
      [] input.kind = "Console" -> visit_console(v, input)
      [] input.kind = "Block" -> visit_block(v, input)

visit_function(v, input) ==
    visit_block(enter(v, "visit_function", input), input.block)

\* input.functions.values().for_each(|function| self.visit_function(function))
RECURSIVE visit_functions(_, _)
visit_functions(v, functions) ==
    IF functions = << >> THEN v
    ELSE visit_functions(visit_function(v, Head(functions)), Tail(functions))

visit_program(v, input) ==
    visit_functions(enter(v, "visit_program", input), input.functions)

---------------------------------------------------------------------------
(* The type checking pass: passes/src/type_checker/mod.rs                  *)
(*                                                                         *)
(* The diagnostics sink is the sequence of the errors recorded so far.     *)
(* The handlers of the TypeChecker walk the program as the default         *)
(* handlers do; a visit of a node that fails its check records an error in *)
(* the sink, and a visit of an expression that passes it may produce a     *)
(* type.                                                                   *)

\* Handler::emit_err
emit_err(sink, error) == Append(sink, error)

\* Handler::last_err: the last error recorded, Ok(()) when there is none
last_err(sink) ==
    IF sink = << >> THEN [ ok |-> TRUE, val |-> "unit" ]
    ELSE [ ok |-> FALSE, val |-> sink[Len(sink)] ]

TypeCheckerError(node) == [ kind |-> "TypeCheckerError", node |-> node ]

\* the events of the checker on the walk t: a visit of an expression that
\* passes its check returns a type when the checker produces outputs
type_checker_trace(t, faulty, produce) ==
    [ i \in DOMAIN t |->
        IF t[i].event = "return" /\ produce /\ t[i].node \notin faulty
        THEN [ t[i] EXCEPT !.output = Some("Type") ]
        ELSE t[i] ]

\* the sink after the checker walked t: an error for every faulty node, in
\* the order of the visits
RECURSIVE type_checker_errors(_, _, _)
type_checker_errors(sink, t, faulty) ==
    IF t = << >> THEN sink
    ELSE type_checker_errors(
             IF Head(t).event = "call" /\ Head(t).node \in faulty
             THEN emit_err(sink, TypeCheckerError(Head(t).node))
             ELSE sink,
             Tail(t), faulty)

\* a pass that succeeds whatever the sink holds
do_pass_output_ok(sink) == [ ok |-> TRUE, val |-> "unit" ]

\* do_pass after visit_program: handler.last_err()?; Ok(())
do_pass_output(sink) ==
    IF ~last_err(sink).ok THEN last_err(sink) ELSE [ ok |-> TRUE, val |-> "unit" ]

---------------------------------------------------------------------------
(* The token streams the parser is run on *)

\* all sequences over S of length at most n
SeqsUpTo(S, n) == UNION { [ 1..k -> S ] : k \in 0..n }

\* the tokens of the free part of a stream: none of them opens a nested
\* expression but the `{` of a circuit init
BodyTokens == { "Ident", "LeftCurly", "RightCurly", "Comma", "Add" }

\* the places a free part is put in: what precedes it and what follows it
Contexts ==
    { << << >>, << >> >>,
      << << "LeftParen" >>, << "RightParen" >> >>,
      << << "Ident", "LeftParen" >>, << "RightParen" >> >>,
      << << "Ident", "LeftParen", "Ident", "Comma" >>, << "RightParen" >> >>,
      << << "Ident", "LeftSquare" >>, << "RightSquare" >> >>,
      << << "Ident", "LeftSquare", "DotDot" >>, << "RightSquare" >> >>,
      << << "Ident", "LeftSquare" >>, << "DotDot", "Ident", "RightSquare" >> >>,
      << << "Ident", "LeftSquare" >>, << "DotDot", "RightSquare" >> >>,
      << << "LeftSquare" >>, << "RightSquare" >> >>,
      << << "LeftSquare", "DotDotDot" >>, << "RightSquare" >> >>,
      << << "LeftSquare" >>, << "Semicolon", "Int", "RightSquare" >> >>,
      << << "LeftParen", "Ident", "LeftCurly", "Ident", "Colon" >>,
         << "RightCurly", "RightParen" >> >>,
      << << "Ident", "Question" >>, << "Colon", "Ident" >> >>,
      << << "Ident", "Question", "Ident", "Colon" >>, << >> >>,
      << << "Ident", "Question", "Ident", "Colon" >>,
         << "Question", "Ident", "Colon", "Ident" >> >>,
      << << "LeftParen", "Ident", "Question", "Ident", "Colon" >>,
         << "RightParen", "Question", "Ident", "Colon", "Ident" >> >>,
      << << "Not", "Ident", "Mul" >>, << "As", "U8" >> >>,
      << << "BigSelf" >>, << >> >>,
      << << "LittleSelf" >>, << >> >>,
      << << "Input" >>, << >> >>,
      << << "LeftSquare", "DotDotDot" >>, << "Semicolon", "Int", "RightSquare" >> >>,
      << << "LeftSquare", "DotDotDot", "Ident", "Semicolon" >>,
         << "RightSquare" >> >>,
      << << "LeftSquare", "DotDotDot", "Ident", "Semicolon", "Int" >>, << >> >>,
      << << "LeftSquare", "DotDotDot", "Ident", "Semicolon", "LeftParen", "Int",
            "Comma", "Int", "RightParen" >>, << "RightSquare" >> >> }

ContextStreams ==
    { c[1] \o body \o c[2] : c \in Contexts, body \in SeqsUpTo(BodyTokens, MaxBody) }

\* the operator tokens of the binary levels of the ladder
ChainOperators ==
    { "Or", "And", "Eq", "NotEq", "Lt", "GtEq", "Add", "Minus", "Mul", "Div",
      "Exp" }

\* operand (operator operand)*: n operators between n + 1 operands
OperatorChains ==
    { [ i \in 1..(2 * Len(ops) + 1) |->
          IF i % 2 = 1 THEN "Int" ELSE ops[i \div 2] ] :
      ops \in SeqsUpTo(ChainOperators, MaxOps) }

---------------------------------------------------------------------------
(* The state machine: a caller runs one entry point on a token stream *)

InitOn(streams) ==
    /\ tokens \in streams
    /\ pos = 1
    /\ disallow_circuit_construction \in BOOLEAN
    /\ entry_flag = disallow_circuit_construction
    /\ prior_fuzzy_state = FALSE
    /\ result = None
    /\ entry = "none"
    /\ pc = "ready"
    /\ ast = Program(<< >>)
    /\ trace = << >>
    /\ handler = << >>
    /\ pass_result = None
    /\ pass_pc = "ready"

Init == InitOn(ContextStreams)

InitChains == InitOn(OperatorChains)

\* the parser object
Self == [ pos |-> pos, flag |-> disallow_circuit_construction ]

\* a call leaves the parser object and hands its result to the caller
Returns(r) ==
    /\ result' = [ ok |-> r.ok, val |-> r.val ]
    /\ pos' = r.pos
    /\ disallow_circuit_construction' = r.flag

\* parse_expression is called and has parsed: it is about to restore the flag
ParseExpressionCall ==
    /\ pc = "ready"
    /\ prior_fuzzy_state' = disallow_circuit_construction
    /\ Returns(parse_expression_call(Self))
    /\ entry' = "parse_expression"
    /\ pc' = "restore"
    /\ UNCHANGED << tokens, entry_flag, pass_vars >>

\* parse_expression restores the caller's flag and returns: the second half
\* of the same call, and the only step there is once the first is taken
ParseExpressionReturn ==
    /\ pc = "restore"
    /\ disallow_circuit_construction' =
           restore_prior_state(Self, prior_fuzzy_state).flag
    /\ pc' = "returned"
    /\ UNCHANGED << tokens, pos, prior_fuzzy_state, result, entry, entry_flag,
                    pass_vars >>

\* parse_conditional_expression is called directly, as the statement parser
\* does for the header of a conditional or iteration statement
ParseConditionalExpression ==
    /\ pc = "ready"
    /\ Returns(parse_conditional_expression(Self))
    /\ entry' = "parse_conditional_expression"
    /\ pc' = "returned"
    /\ UNCHANGED << tokens, prior_fuzzy_state, entry_flag, pass_vars >>

Next ==
    \/ ParseExpressionCall
    \/ ParseExpressionReturn
    \/ ParseConditionalExpression

Spec == Init /\ [][Next]_vars

SpecChains == InitChains /\ [][Next]_vars


---------------------------------------------------------------------------
(* The programs the passes are run on *)

\* the leaf at token i: an identifier or a literal
Leaf(i) ==
    IF i % 2 = 1 THEN Identifier("ident", Span(i, i))
    ELSE Value("Implicit", Span(i, i))

\* the nestings of binary expressions over the leaves lo..hi
RECURSIVE BinaryTrees(_, _)
BinaryTrees(lo, hi) ==
    IF lo = hi THEN { Leaf(lo) }
    ELSE UNION { { Binary("Add", l, r, Span(lo, hi)) :
                     l \in BinaryTrees(lo, k), r \in BinaryTrees(k + 1, hi) } :
                 k \in lo..(hi - 1) }

\* every expression of a program has a region of the source of its own, so
\* that no two nodes of a program are equal; the first token of region j
RegionStart(j) == (j - 1) * (MaxLeaves + 2) + 1

\* the nested binary expressions of region j
NestedBinary(j) ==
    UNION { BinaryTrees(RegionStart(j), RegionStart(j) + n - 1) :
            n \in 1..MaxLeaves }

\* expressions of the other variants, over the tokens lo..lo + 4
OtherExpressions(lo) ==
    { ErrExpression(Span(lo, lo)),
      Unary("Negate", Leaf(lo + 1), Span(lo, lo + 1)),
      Unary("Not", Binary("Add", Leaf(lo + 1), Leaf(lo + 3), Span(lo + 1, lo + 3)),
            Span(lo, lo + 3)),
      Ternary(Leaf(lo), Leaf(lo + 2), Leaf(lo + 4), Span(lo, lo + 4)),
      Call(Leaf(lo), << >>, Span(lo, lo + 2)),
      Call(Leaf(lo), << Leaf(lo + 2), Leaf(lo + 4) >>, Span(lo, lo + 4)),
      Call(Call(Leaf(lo), << Leaf(lo + 2) >>, Span(lo, lo + 3)),
           << Leaf(lo + 4) >>, Span(lo, lo + 4)) }

Expressions(j) == NestedBinary(j) \cup OtherExpressions(RegionStart(j))

\* the programs built around the expressions a and b: one for every
\* statement variant, for a chain of conditionals, for nested blocks and
\* for two functions
ProgramsOf(a, b) ==
    { Program(<< Function(Block(<< ReturnStatement(a) >>)) >>),
      Program(<< Function(Block(<< DefinitionStatement(a), AssignStatement(b),
                                   ReturnStatement(Leaf(RegionStart(3))) >>)) >>),
      Program(<< Function(Block(<<
          ConditionalStatement(a, Block(<< ReturnStatement(b) >>), None) >>)) >>),
      Program(<< Function(Block(<<
          ConditionalStatement(a, Block(<< >>),
              Some(ConditionalStatement(b,
                       Block(<< AssignStatement(Leaf(RegionStart(3))) >>),
                       Some(Block(<< ReturnStatement(Leaf(RegionStart(4)))
                                  >>))))) >>)) >>),
      Program(<< Function(Block(<<
          IterationStatement(a, b,
              Block(<< ConsoleStatement(ConsoleAssert(Leaf(RegionStart(3))))
                    >>)) >>)) >>),
      Program(<< Function(Block(<<
          ConsoleStatement(ConsoleFormat("Log", << a, b >>)),
          ConsoleStatement(ConsoleFormat("Error", << >>)) >>)) >>),
      Program(<< Function(Block(<< Block(<< DefinitionStatement(a) >>),
                                   ReturnStatement(b) >>)) >>),
      Program(<< Function(Block(<< ReturnStatement(a) >>)),
                 Function(Block(<< ReturnStatement(b) >>)) >>) }

Programs ==
    { Program(<< >>) }
    \cup UNION { ProgramsOf(a, b) : a \in Expressions(1), b \in NestedBinary(2) }

---------------------------------------------------------------------------
(* The state machine of the passes: a pass is run on a program *)

InitPasses ==
    /\ tokens = << >>
    /\ pos = 1
    /\ disallow_circuit_construction = FALSE
    /\ entry_flag = FALSE
    /\ prior_fuzzy_state = FALSE
    /\ result = None
    /\ entry = "none"
    /\ pc = "ready"
    /\ ast \in Programs
    /\ trace = << >>
    /\ handler = << >>
    /\ pass_result = None
    /\ pass_pc = "ready"

\* the nodes of the handler calls of a walk
Visited(t) == { t[i].node : i \in { k \in DOMAIN t : t[k].event = "call" } }

\* the nodes that may fail their check: none, any one of those the walk
\* visits, or all of them
FaultSets(t) == { { }, Visited(t) } \cup { { n } : n \in Visited(t) }

\* a visitor that overrides no handler walks the program
VisitProgram ==
    /\ pass_pc = "ready"
    /\ trace' = visit_program(<< >>, ast)
    /\ pass_pc' = "visited"
    /\ UNCHANGED << ast, handler, pass_result, parser_vars >>

\* do_pass up to the return of visit_program: the checker has walked the
\* program and recorded its errors
DoPassVisitProgram ==
    /\ pass_pc = "ready"
    /\ \E faulty \in FaultSets(visit_program(<< >>, ast)), produce \in BOOLEAN :
           /\ trace' = type_checker_trace(visit_program(<< >>, ast), faulty,
                                          produce)
           /\ handler' = type_checker_errors(handler,
                                             visit_program(<< >>, ast), faulty)
    /\ pass_pc' = "last_err"
    /\ UNCHANGED << ast, pass_result, parser_vars >>

\* do_pass queries the sink and returns
DoPassLastErr ==
    /\ pass_pc = "last_err"
    /\ pass_result' = do_pass_output(handler)
    /\ pass_pc' = "returned"
    /\ UNCHANGED << ast, trace, handler, parser_vars >>

NextPasses ==
    \/ VisitProgram
    \/ DoPassVisitProgram
    \/ DoPassLastErr

SpecPasses == InitPasses /\ [][NextPasses]_vars
---------------------------------------------------------------------------
(* What the properties say about a stream and about a returned tree *)

Range(seq) == { seq[k] : k \in 1..Len(seq) }

\* the expressions directly below an expression
Children(e) ==
    CASE e.kind = "CircuitInit" ->
             { m.expression.v : m \in { x \in Range(e.members) :
                                          x.expression # None } }
      [] e.kind = "TupleInit" -> Range(e.elements)
      [] e.kind = "ArrayInline" -> { x.expression : x \in Range(e.elements) }
      [] e.kind = "ArrayInit" -> { e.element }
      [] e.kind = "Binary" -> { e.left, e.right }
      [] e.kind = "Unary" -> { e.inner }
      [] e.kind = "Ternary" -> { e.condition, e.if_true, e.if_false }
      [] e.kind = "Cast" -> { e.inner }
      [] e.kind = "Call" -> { e.function } \cup Range(e.arguments)
      [] e.kind = "ArrayRange" ->
             { e.array } \cup { b.v : b \in { e.left, e.right } \ { None } }
      [] e.kind = "Array" -> { e.array, e.index }
      [] e.kind \in { "Member", "Static" } -> { e.inner }
      [] e.kind = "Tuple" -> { e.tuple }
      [] OTHER -> { }

\* an expression and every expression below it
RECURSIVE Descendants(_)
Descendants(e) == { e } \cup UNION { Descendants(c) : c \in Children(e) }

\* the nodes of the tree the entry point returned, none for an error
Nodes == IF pc # "ready" /\ result.ok THEN Descendants(result.val) ELSE { }

Openers == { "LeftParen", "LeftSquare", "LeftCurly", "Question" }

Closers == { "RightParen", "RightSquare", "RightCurly" }

Pop(stack) == SubSeq(stack, 1, Len(stack) - 1)

\* the delimiters still open after one more token: `?` opens the true-branch
\* of a ternary and the `:` that follows it closes that branch
Scan(stack, token) ==
    IF token \in Openers THEN Append(stack, token)
    ELSE IF stack = << >> THEN stack
    ELSE IF token \in Closers THEN Pop(stack)
    ELSE IF token = "Colon" /\ stack[Len(stack)] = "Question" THEN Pop(stack)
    ELSE stack

\* the delimiters that are open where token i stands, outermost first
RECURSIVE OpenAt(_)
OpenAt(i) == IF i = 1 THEN << >> ELSE Scan(OpenAt(i - 1), tokens[i - 1])

\* the places where an identifier is directly followed by `{`
IdentCurly == { i \in 1..(Len(tokens) - 1) :
                  tokens[i] = "Ident" /\ tokens[i + 1] = "LeftCurly" }

\* a header expression was parsed: parse_conditional_expression was entered
\* with the flag set, and has returned
HeaderParsed ==
    /\ pc = "returned"
    /\ entry = "parse_conditional_expression"
    /\ entry_flag

\* the identifier at i was returned as a plain identifier and the parser
\* stopped in front of the `{` that follows it
LeftForCaller(i) ==
    /\ pos = i + 1
    /\ result.ok => Identifier("ident", Span(i, i)) \in Nodes

\* the identifier at i and the `{` after it were consumed as a circuit init
ParsedAsCircuitInit(i) ==
    /\ pos > i + 1
    /\ result.ok => \E d \in Nodes :
                       d.kind = "CircuitInit" /\ d.name.span = Span(i, i)

---------------------------------------------------------------------------
(* C1 *)

\* C1: while parse_expression parses, the flag is cleared, and when it has
\* returned, with an expression or with an error, the flag has the value it
\* had when parse_expression was entered
C1_FlagClearedAndRestored ==
    entry = "parse_expression" =>
        /\ pc = "restore" => disallow_circuit_construction = FALSE
        /\ pc = "returned" => disallow_circuit_construction = entry_flag

\* parse_expression was entered with the flag set, an error was raised inside
\* a nested parse, and parse_expression has returned
C1_Witness ==
    /\ entry = "parse_expression"
    /\ pc = "returned"
    /\ entry_flag
    /\ ~result.ok
    /\ pos > 2

---------------------------------------------------------------------------
(* C2 *)

\* C2 as stated: in a header, an identifier followed by `{` that the parser
\* consumed outside parentheses, brackets and braces, in a branch of a
\* ternary or not, is left for the caller
C2_Stated ==
    HeaderParsed =>
        \A i \in IdentCurly :
            (i < pos /\ Range(OpenAt(i)) \subseteq { "Question" })
                => LeftForCaller(i)

\* C2 amended: in a header, an identifier followed by `{` that the parser
\* consumed outside parentheses, brackets, braces and the true-branch of a
\* ternary is a plain identifier, and the `{` is left for the caller
C2_HeaderLeavesCurly ==
    HeaderParsed =>
        \A i \in IdentCurly :
            (i < pos /\ OpenAt(i) = << >>) => LeftForCaller(i)

\* a header whose else-branch ends in an identifier followed by `{`
C2_Witness ==
    /\ HeaderParsed
    /\ result.ok
    /\ \E i \in IdentCurly :
           /\ i > 1
           /\ tokens[i - 1] = "Colon"
           /\ OpenAt(i) = << >>
           /\ pos = i + 1

---------------------------------------------------------------------------
(* C3 *)

\* the tokens after which an expression starts
ExpressionStart ==
    { "LeftParen", "LeftSquare", "DotDot", "DotDotDot", "Colon", "Question",
      "Add", "Mul", "Not" }

\* token i starts an expression nested in parentheses, brackets or the
\* braces of a circuit init
NestedStart(i) ==
    /\ i > 1
    /\ Range(OpenAt(i)) \cap { "LeftParen", "LeftSquare", "LeftCurly" } # { }
    /\ \/ tokens[i - 1] \in ExpressionStart
       \/ /\ tokens[i - 1] = "Comma"
          /\ \E k \in 1..Len(OpenAt(i)) :
                 /\ OpenAt(i)[k] \in { "LeftParen", "LeftSquare" }
                 /\ \A j \in (k + 1)..Len(OpenAt(i)) : OpenAt(i)[j] = "Question"

\* C3: whatever the flag was on entry, an identifier followed by `{` that
\* the parser consumed at the start of an expression nested in parentheses,
\* call arguments, brackets, array elements or circuit field values is
\* parsed as a circuit init
C3_NestedCircuitInit ==
    pc = "returned" =>
        \A i \in IdentCurly : (i < pos /\ NestedStart(i)) => ParsedAsCircuitInit(i)

\* a header, entered with the flag set, with a circuit init as the field
\* value of a circuit init in parentheses
C3_Witness ==
    /\ HeaderParsed
    /\ result.ok
    /\ \E i \in IdentCurly :
           /\ NestedStart(i)
           /\ tokens[i - 1] = "Colon"
           /\ OpenAt(i) = << "LeftParen", "LeftCurly" >>
           /\ ParsedAsCircuitInit(i)

---------------------------------------------------------------------------
(* What the properties say about operator chains *)

\* the leaves the parser builds for the Int and the Ident token at i
IntAt(i) == Value("Implicit", Span(i, i))

IdentAt(i) == Identifier("ident", Span(i, i))

\* the stream operand (operator operand)* with the operators ops
Chain(ops) ==
    [ i \in 1..(2 * Len(ops) + 1) |-> IF i % 2 = 1 THEN "Int" ELSE ops[i \div 2] ]

\* the operators of the stream, when it is a chain
ChainOps == { tokens[2 * k] : k \in 1..(Len(tokens) \div 2) }

\* the entry point consumed the whole stream and returned the tree
ParsedTo(tree) ==
    /\ result.ok
    /\ result.val = tree
    /\ pos = Len(tokens) + 1

\* the operation an operator token stands for
Operation ==
    [ Or |-> "Or", And |-> "And", Eq |-> "Eq", NotEq |-> "Ne", Lt |-> "Lt",
      LtEq |-> "Le", Gt |-> "Gt", GtEq |-> "Ge", Add |-> "Add", Minus |-> "Sub",
      Mul |-> "Mul", Div |-> "Div", Exp |-> "Pow" ]

\* the level of the ladder that builds an operation, the loosest first
LevelOf ==
    [ Or |-> 1, And |-> 2, Eq |-> 3, Ne |-> 3, Lt |-> 4, Le |-> 4, Gt |-> 4,
      Ge |-> 4, Add |-> 5, Sub |-> 5, Mul |-> 6, Div |-> 6, Pow |-> 7 ]

\* the level an expression was built at: above all binary levels if it is
\* not a binary expression
Level(e) == IF e.kind = "Binary" THEN LevelOf[e.op] ELSE 8

---------------------------------------------------------------------------
(* C4 *)

\* C4: `a + b * c` parses to Add(a, Mul(b, c)) and `a * b + c` to
\* Add(Mul(a, b), c); in every tree, no operand of a binary expression was
\* built at a looser level than the expression, and the operand the level
\* does not fold into (the right one, the left one of a power) was built at
\* a tighter level
C4_MulBindsTighter ==
    pc = "returned" =>
        /\ tokens = Chain(<< "Add", "Mul" >>) =>
               ParsedTo(Binary("Add", IntAt(1),
                               Binary("Mul", IntAt(3), IntAt(5), Span(3, 5)),
                               Span(1, 5)))
        /\ tokens = Chain(<< "Mul", "Add" >>) =>
               ParsedTo(Binary("Add",
                               Binary("Mul", IntAt(1), IntAt(3), Span(1, 3)),
                               IntAt(5), Span(1, 5)))
        /\ \A d \in Nodes :
               d.kind = "Binary" =>
                   /\ Level(d.left) >= Level(d)
                   /\ Level(d.right) >= Level(d)
                   /\ d.op # "Pow" => Level(d.right) > Level(d)
                   /\ d.op = "Pow" => Level(d.left) > Level(d)

\* `a + b * c` was parsed
C4_Witness ==
    /\ pc = "returned"
    /\ tokens = Chain(<< "Add", "Mul" >>)
    /\ result.ok
    /\ result.val.right.kind = "Binary"

---------------------------------------------------------------------------
(* C5 *)

\* the sets of operators of the levels that fold to the left
LeftLevels == { { "Or" }, { "And" }, { "Add", "Minus" }, { "Mul", "Div" } }

\* the tree that folds the first n operators of the stream to the left
RECURSIVE LeftFold(_)
LeftFold(n) ==
    IF n = 0 THEN IntAt(1)
    ELSE Binary(Operation[tokens[2 * n]], LeftFold(n - 1), IntAt(2 * n + 1),
                Span(1, 2 * n + 1))

\* C5: a chain of operators of one of the levels or, and, additive,
\* multiplicative parses to the tree folded to the left
C5_LeftFold ==
    pc = "returned" =>
        \A L \in LeftLevels :
            (ChainOps # { } /\ ChainOps \subseteq L) =>
                ParsedTo(LeftFold(Len(tokens) \div 2))

\* `1 - 2 - 3` was parsed
C5_Witness ==
    /\ pc = "returned"
    /\ tokens = Chain(<< "Minus", "Minus" >>)
    /\ result.ok
    /\ result.val.op = "Sub"
    /\ result.val.left.kind = "Binary"

---------------------------------------------------------------------------
(* C6 *)

\* the tree that folds the stream from its k-th operand on to the right
RECURSIVE RightFold(_)
RightFold(k) ==
    IF 2 * k - 1 = Len(tokens) THEN IntAt(2 * k - 1)
    ELSE Binary("Pow", IntAt(2 * k - 1), RightFold(k + 1),
                Span(2 * k - 1, Len(tokens)))

\* C6: a chain of `^` parses to the tree folded to the right
C6_PowRightFold ==
    pc = "returned" => (ChainOps = { "Exp" } => ParsedTo(RightFold(1)))

\* `2 ^ 3 ^ 2` was parsed
C6_Witness ==
    /\ pc = "returned"
    /\ tokens = Chain(<< "Exp", "Exp" >>)
    /\ result.ok
    /\ result.val.op = "Pow"
    /\ result.val.right.kind = "Binary"

---------------------------------------------------------------------------
(* C7 *)

\* the expression that spans `span` stands between a `(` and a `)`, where a
\* comma may precede the `)`
Parenthesized(span) ==
    /\ span.lo > 1
    /\ tokens[span.lo - 1] = "LeftParen"
    /\ span.hi < Len(tokens)
    /\ \/ tokens[span.hi + 1] = "RightParen"
       \/ /\ span.hi + 1 < Len(tokens)
          /\ tokens[span.hi + 1] = "Comma"
          /\ tokens[span.hi + 2] = "RightParen"

\* C7: `a ? b : c ? d : e` parses to Ternary(a, b, Ternary(c, d, e)), and in
\* every tree a ternary that is the condition of a ternary stands in
\* parentheses
C7_TernaryNestsRight ==
    pc = "returned" =>
        /\ tokens = << "Ident", "Question", "Ident", "Colon", "Ident",
                       "Question", "Ident", "Colon", "Ident" >> =>
               ParsedTo(Ternary(IdentAt(1), IdentAt(3),
                                Ternary(IdentAt(5), IdentAt(7), IdentAt(9),
                                        Span(5, 9)),
                                Span(1, 9)))
        /\ \A d \in Nodes :
               (d.kind = "Ternary" /\ d.condition.kind = "Ternary") =>
                   Parenthesized(d.condition.span)

\* `a ? b : c ? d : e` was parsed
C7_Witness ==
    /\ pc = "returned"
    /\ Len(tokens) = 9
    /\ \A i \in 1..9 :
           tokens[i] = IF i % 2 = 1 THEN "Ident"
                       ELSE IF i % 4 = 2 THEN "Question" ELSE "Colon"
    /\ result.ok
    /\ result.val.if_false.kind = "Ternary"

---------------------------------------------------------------------------
(* C8 *)

\* the token indices of a span
Indices(span) == span.lo..span.hi

\* the smallest span that holds a set of token indices
Cover(S) ==
    Span(CHOOSE x \in S : \A y \in S : x <= y,
         CHOOSE x \in S : \A y \in S : x >= y)

\* C8: the span of every binary expression of a returned tree is the
\* smallest span that holds the spans of its two operands
C8_BinarySpan ==
    \A d \in Nodes :
        d.kind = "Binary" =>
            d.span = Cover(Indices(d.left.span) \cup Indices(d.right.span))

\* a tree was returned whose root and both operands of the root are binary
C8_Witness ==
    /\ pc = "returned"
    /\ result.ok
    /\ result.val.kind = "Binary"
    /\ result.val.left.kind = "Binary"
    /\ result.val.right.kind = "Binary"

---------------------------------------------------------------------------
(* C9 *)

\* the stream is `f (` followed by n identifiers, with a comma between two
\* of them and, if trailing, with a comma after the last, and by `)`
ArgumentList(n, trailing) ==
    /\ Len(tokens) = 2 * n + 2 + (IF trailing THEN 1 ELSE 0)
    /\ tokens[1] = "Ident"
    /\ tokens[2] = "LeftParen"
    /\ tokens[Len(tokens)] = "RightParen"
    /\ \A k \in 3..(Len(tokens) - 1) :
           tokens[k] = IF k % 2 = 1 THEN "Ident" ELSE "Comma"

\* the call of f with the n identifiers of the stream as its arguments
CallOf(n) ==
    Call(IdentAt(1), [ k \in 1..n |-> IdentAt(2 * k + 1) ], Span(1, Len(tokens)))

\* the lengths of the argument lists that are looked at
ArgumentCounts == 0..(Len(tokens) \div 2)

---------------------------------------------------------------------------
(* C10 *)

\* what C10 says of `(a)` and of `(a, b)`: the first is a, the second a
\* tuple of a and b
C10_Parenthesized ==
    /\ tokens = << "LeftParen", "Ident", "RightParen" >> =>
           ParsedTo(IdentAt(2))
    /\ tokens = << "LeftParen", "Ident", "Comma", "Ident", "RightParen" >> =>
           ParsedTo(TupleInit(<< IdentAt(2), IdentAt(4) >>, Span(1, 5)))

\* C10 as stated: every tuple init of a returned tree has 2 elements or more
C10_Stated ==
    pc = "returned" =>
        /\ C10_Parenthesized
        /\ \A d \in Nodes : d.kind = "TupleInit" => Len(d.elements) >= 2

\* C10 amended: every tuple init of a returned tree has 2 elements or more,
\* or it has none and is the `()` the parentheses alone stand for
C10_TupleInitElements ==
    pc = "returned" =>
        /\ C10_Parenthesized
        /\ \A d \in Nodes :
               d.kind = "TupleInit" =>
                   \/ Len(d.elements) >= 2
                   \/ /\ d.elements = << >>
                      /\ d.span.hi = d.span.lo + 1
                      /\ tokens[d.span.lo] = "LeftParen"
                      /\ tokens[d.span.hi] = "RightParen"

\* `(a, b)` was parsed to a tuple init with two elements
C10_Witness ==
    /\ pc = "returned"
    /\ tokens = << "LeftParen", "Ident", "Comma", "Ident", "RightParen" >>
    /\ result.ok
    /\ result.val.kind = "TupleInit"
    /\ Len(result.val.elements) = 2


---------------------------------------------------------------------------
(* C11 *)

\* the stream is the identifier a followed by the bracketed tokens
Bracketed(inner) ==
    tokens = << "Ident", "LeftSquare" >> \o inner \o << "RightSquare" >>

\* C11: on a base a, `a[b..c]`, `a[b..]`, `a[..c]` and `a[..]` are range
\* accesses on a whose left bound is the expression before `..`, and absent
\* when there is none, and whose right bound is the expression after `..`,
\* and absent when there is none; `a[b]` is an array access with index b.
\* In every returned tree a range access has no left bound exactly when
\* `..` follows its `[`, and no right bound exactly when `..` precedes its `]`
C11_RangeForms ==
    pc = "returned" =>
        /\ Bracketed(<< "Ident", "DotDot", "Ident" >>) =>
               ParsedTo(ArrayRangeAccess(IdentAt(1), Some(IdentAt(3)),
                                         Some(IdentAt(5)), Span(1, 6)))
        /\ Bracketed(<< "Ident", "DotDot" >>) =>
               ParsedTo(ArrayRangeAccess(IdentAt(1), Some(IdentAt(3)), None,
                                         Span(1, 5)))
        /\ Bracketed(<< "DotDot", "Ident" >>) =>
               ParsedTo(ArrayRangeAccess(IdentAt(1), None, Some(IdentAt(4)),
                                         Span(1, 5)))
        /\ Bracketed(<< "DotDot" >>) =>
               ParsedTo(ArrayRangeAccess(IdentAt(1), None, None, Span(1, 4)))
        /\ Bracketed(<< "Ident" >>) =>
               ParsedTo(ArrayAccess(IdentAt(1), IdentAt(3), Span(1, 4)))
        /\ \A d \in Nodes :
               d.kind = "ArrayRange" =>
                   /\ tokens[d.array.span.hi + 1] = "LeftSquare"
                   /\ tokens[d.span.hi] = "RightSquare"
                   /\ d.left = None <=> tokens[d.array.span.hi + 2] = "DotDot"
                   /\ d.right = None <=> tokens[d.span.hi - 1] = "DotDot"
        /\ \A d \in Nodes :
               d.kind = "Array" =>
                   \A i \in Indices(d.index.span) : tokens[i] # "DotDot"

\* `a[b..]` was parsed to a range access with a left and without a right bound
C11_Witness ==
    /\ pc = "returned"
    /\ Bracketed(<< "Ident", "DotDot" >>)
    /\ result.ok
    /\ result.val.kind = "ArrayRange"
    /\ result.val.left = Some(IdentAt(3))
    /\ result.val.right = None

---------------------------------------------------------------------------
(* C12 *)

\* the flag is clear wherever an expression starts: parse_expression clears
\* it, and parse_conditional_expression was entered with the flag clear
FlagClear == entry = "parse_expression" \/ ~entry_flag

\* the places where a token of `names` is directly followed by `{`
NameCurly(names) ==
    { i \in 1..(Len(tokens) - 1) :
        tokens[i] \in names /\ tokens[i + 1] = "LeftCurly" }

\* token i is the first token of an expression
StartsExpression(i) ==
    \/ i = 1
    \/ tokens[i - 1] \in ExpressionStart
    \/ NestedStart(i)

\* the name the parser gives to an identifier token
NameOf(token) ==
    CASE token = "Ident" -> "ident"
      [] token = "BigSelf" -> "SelfUpper"
      [] token = "LittleSelf" -> "SelfLower"
      [] token = "Input" -> "input"

\* the token at i was returned as a plain identifier and the parser stopped
\* in front of the `{` that follows it
PlainIdentifier(i) ==
    /\ pos = i + 1
    /\ result.ok => Identifier(NameOf(tokens[i]), Span(i, i)) \in Nodes

\* C12 as stated: with the flag clear, an identifier, `Self`, `self` or
\* `input` that is directly followed by `{` at the start of an expression is
\* parsed as a circuit init
C12_Stated ==
    (pc = "returned" /\ FlagClear) =>
        \A i \in NameCurly({ "Ident", "BigSelf", "LittleSelf", "Input" }) :
            (i < pos /\ StartsExpression(i)) => ParsedAsCircuitInit(i)

\* C12 amended: with the flag clear, an identifier or `Self` that is directly
\* followed by `{` at the start of an expression is parsed as a circuit
\* init; `self` and `input` are returned as plain identifiers and the `{`
\* is left unconsumed
C12_CircuitInitNames ==
    (pc = "returned" /\ FlagClear) =>
        /\ \A i \in NameCurly({ "Ident", "BigSelf" }) :
               (i < pos /\ StartsExpression(i)) => ParsedAsCircuitInit(i)
        /\ \A i \in NameCurly({ "LittleSelf", "Input" }) :
               (i < pos /\ StartsExpression(i)) => PlainIdentifier(i)

\* `Self { }` was parsed, with the flag clear, to a circuit init named Self
C12_Witness ==
    /\ pc = "returned"
    /\ FlagClear
    /\ tokens = << "BigSelf", "LeftCurly", "RightCurly" >>
    /\ result.ok
    /\ result.val = CircuitInit(Identifier("SelfUpper", Span(1, 1)), << >>,
                                Span(1, 3))

---------------------------------------------------------------------------
(* C16 *)

\* the stream starts with `[ ...` and a `;` stands in these brackets
SpreadRepeat ==
    /\ Len(tokens) >= 2
    /\ tokens[1] = "LeftSquare"
    /\ tokens[2] = "DotDotDot"
    /\ \E j \in 3..Len(tokens) :
           tokens[j] = "Semicolon" /\ OpenAt(j) = << "LeftSquare" >>

\* C16: a stream that starts with `[ ...` and has a `;` after the spread
\* never parses to an expression, whichever dimensions and closing tokens
\* follow the `;`: the entry point returns a parse error, which is the
\* spread error when the dimensions and the `]` are well formed; and no
\* repeat array of a returned tree starts with `[ ...`
C16_SpreadInRepeatArray ==
    pc = "returned" =>
        /\ SpreadRepeat => (~result.ok /\ result.val.kind = "ParserError")
        /\ tokens \in { << "LeftSquare", "DotDotDot", "Ident", "Semicolon",
                           "Int", "RightSquare" >>,
                        << "LeftSquare", "DotDotDot", "Ident", "Semicolon",
                           "LeftParen", "Int", "Comma", "Int", "RightParen",
                           "RightSquare" >> } =>
               (~result.ok /\ result.val.name = "spread_in_array_init")
        /\ \A d \in Nodes :
               d.kind = "ArrayInit" => tokens[d.span.lo + 1] # "DotDotDot"

\* `[...a; 1]` was parsed up to its `]` and rejected for the spread
C16_Witness ==
    /\ pc = "returned"
    /\ tokens = << "LeftSquare", "DotDotDot", "Ident", "Semicolon", "Int",
                   "RightSquare" >>
    /\ ~result.ok
    /\ result.val.name = "spread_in_array_init"
    /\ pos = 7

---------------------------------------------------------------------------
(* What the properties say about a walk of a program *)

\* the places of the trace where a handler is called
Calls == { i \in DOMAIN trace : trace[i].event = "call" }

\* the place where the expression handler called at i returns
ReturnOf(i) ==
    CHOOSE j \in DOMAIN trace :
        /\ j > i
        /\ trace[j].event = "return"
        /\ trace[j].node = trace[i].node

\* a handler is called on the expression c while the handler called at i runs
VisitedWithin(i, c) ==
    \E j \in (i + 1)..(ReturnOf(i) - 1) :
        trace[j].event = "call" /\ trace[j].node = c

\* the handlers of the expressions that own expressions
RecursiveHandlers ==
    { "visit_binary", "visit_unary", "visit_ternary", "visit_call" }

\* the expressions a node owns, but for the function of a call
ChildrenButFunction(d) ==
    IF d.kind = "Call" THEN Range(d.arguments) ELSE Children(d)

\* the expressions a statement holds, and those of the statements in it
RECURSIVE StatementExpressions(_)
StatementExpressions(s) ==
    CASE s.kind = "Return" -> { s.expression }
      [] s.kind \in { "Definition", "Assign" } -> { s.value }
      [] s.kind = "Conditional" ->
             { s.condition } \cup StatementExpressions(s.block)
             \cup (IF s.next = None THEN { } ELSE StatementExpressions(s.next.v))
      [] s.kind = "Iteration" ->
             { s.start, s.stop } \cup StatementExpressions(s.block)
      [] s.kind = "Console" ->
             IF s.function.variant = "Assert" THEN { s.function.expression }
             ELSE Range(s.function.parameters)
      [] s.kind = "Block" ->
             UNION { StatementExpressions(x) : x \in Range(s.statements) }

\* the expressions the statements of the program hold
ProgramExpressions ==
    UNION { StatementExpressions(f.block) : f \in Range(ast.functions) }

\* every expression node of the program
ProgramNodes == UNION { Descendants(e) : e \in ProgramExpressions }

---------------------------------------------------------------------------
(* C13 *)

\* every handler of the walk returned no value
NoOutput ==
    \A i \in DOMAIN trace : trace[i].event = "return" => trace[i].output = None

\* C13 as stated: in a walk with no handler overridden, while the handler
\* of a Binary, Unary, Ternary or Call node runs, visit_expression is called
\* on every expression the node owns, the function of a call among them,
\* and every handler returns no value
C13_Stated ==
    pass_pc = "visited" =>
        /\ \A i \in Calls :
               trace[i].handler \in RecursiveHandlers =>
                   \A c \in Children(trace[i].node) : VisitedWithin(i, c)
        /\ NoOutput

\* C13 amended: in a walk with no handler overridden, while the handler of a
\* Binary, Unary or Ternary node runs, visit_expression is called on every
\* expression the node owns; while the handler of a Call node runs, it is
\* called on every argument and not on the function; and every handler
\* returns no value
C13_DefaultRecursion ==
    pass_pc = "visited" =>
        /\ \A i \in Calls :
               trace[i].handler \in RecursiveHandlers =>
                   /\ \A c \in ChildrenButFunction(trace[i].node) :
                          VisitedWithin(i, c)
                   /\ trace[i].node.kind = "Call" =>
                          ~VisitedWithin(i, trace[i].node.function)
        /\ NoOutput

\* a call with two arguments was walked: both arguments were visited
C13_Witness ==
    /\ pass_pc = "visited"
    /\ \E i \in Calls :
           /\ trace[i].handler = "visit_call"
           /\ Len(trace[i].node.arguments) = 2
           /\ \A c \in Range(trace[i].node.arguments) : VisitedWithin(i, c)
           /\ trace[ReturnOf(i)].output = None

---------------------------------------------------------------------------
(* C14 *)

\* the leaves of the program
Leaves == { d \in ProgramNodes : d.kind \in { "Identifier", "Value" } }

\* the expressions of the program are nested binary expressions
OnlyBinary ==
    \A d \in ProgramNodes : d.kind \in { "Identifier", "Value", "Binary" }

LeafHandler(d) ==
    IF d.kind = "Identifier" THEN "visit_identifier" ELSE "visit_value"

\* C14: when the expressions of a program are nested binary expressions, a
\* walk of the program with no handler overridden calls visit_identifier
\* once on every identifier of the program and visit_value once on every
\* literal, and calls them on nothing else
C14_LeavesVisitedOnce ==
    (pass_pc = "visited" /\ OnlyBinary) =>
        /\ \A d \in Leaves :
               Cardinality({ i \in Calls :
                               /\ trace[i].node = d
                               /\ trace[i].handler = LeafHandler(d) }) = 1
        /\ \A i \in Calls :
               trace[i].handler \in { "visit_identifier", "visit_value" } =>
                   trace[i].node \in Leaves

\* a chain of conditionals whose conditions are binary expressions with a
\* binary operand was walked
C14_Witness ==
    /\ pass_pc = "visited"
    /\ OnlyBinary
    /\ Cardinality(Leaves) >= 2 * MaxLeaves
    /\ \E d \in ProgramNodes : d.kind = "Binary" /\ d.left.kind = "Binary"
    /\ \E i \in Calls :
           /\ trace[i].handler = "visit_conditional"
           /\ trace[i].node.next # None
           /\ trace[i].node.next.v.kind = "Conditional"

---------------------------------------------------------------------------
(* C15 *)

\* a statement and the statements in it
RECURSIVE StatementsOf(_)
StatementsOf(s) ==
    { s } \cup
    CASE s.kind = "Conditional" ->
             StatementsOf(s.block)
             \cup (IF s.next = None THEN { } ELSE StatementsOf(s.next.v))
      [] s.kind = "Iteration" -> StatementsOf(s.block)
      [] s.kind = "Block" -> UNION { StatementsOf(x) : x \in Range(s.statements) }
      [] OTHER -> { }

\* an expression and the expressions below it, but for the functions of calls
RECURSIVE Reached(_)
Reached(e) == { e } \cup UNION { Reached(c) : c \in ChildrenButFunction(e) }

\* the checker walked the whole program: every function, every statement
\* and every expression the statements hold, down to the leaves
TraversalComplete ==
    /\ ast \in Visited(trace)
    /\ Range(ast.functions) \subseteq Visited(trace)
    /\ \A f \in Range(ast.functions) : StatementsOf(f.block) \subseteq Visited(trace)
    /\ \A e \in ProgramExpressions : Reached(e) \subseteq Visited(trace)

\* C15: the type checking pass queries the sink only when the checker has
\* walked the whole program, whether errors were recorded on the way or
\* not, and it returns a failure when the sink holds an error and success
\* when it holds none, whatever the visits produced
C15_PassResult ==
    /\ pass_pc = "last_err" => (TraversalComplete /\ pass_result = None)
    /\ pass_pc = "returned" =>
           /\ TraversalComplete
           /\ pass_result.ok <=> handler = << >>
           /\ ~pass_result.ok => pass_result.val = handler[Len(handler)]

\* the pass failed on a program with a conditional: the first node the
\* checker visited in the function failed its check, the walk went on to the
\* leaves and produced types
C15_Witness ==
    /\ pass_pc = "returned"
    /\ ~pass_result.ok
    /\ Len(handler) = 1
    /\ handler[1].node.kind = "Block"
    /\ TraversalComplete
    /\ \E i \in Calls : trace[i].handler = "visit_conditional"
    /\ \E i \in DOMAIN trace :
           /\ trace[i].event = "return"
           /\ trace[i].node.kind = "Identifier"
           /\ trace[i].output = Some("Type")

---------------------------------------------------------------------------
(* C17 *)

\* parse_expression entered again with the cursor at p, as a loop or a
\* descent of the parser enters it
Reentered(p) == parse_expression([ pos |-> p, flag |-> FALSE ])

\* the call r that was entered at p has returned with the cursor in the
\* stream or right after it and not before p, and it returns an expression
\* only when the cursor has advanced
Advanced(p, r) ==
    /\ r.pos \in p..(Len(tokens) + 1)
    /\ r.ok => r.pos > p
    /\ ~r.ok => r.val.kind = "ParserError"

\* the entry point has returned and advanced, the returned tree has no more
\* nodes than tokens were consumed, for every node is built by a loop
\* iteration or a descent that consumed a token of its own, and
\* parse_expression entered at any cursor of the stream returns and advances
Progress ==
    /\ pos \in 1..(Len(tokens) + 1)
    /\ pc # "ready" =>
           /\ Advanced(1, [ ok |-> result.ok, val |-> result.val, pos |-> pos ])
           /\ Cardinality(Nodes) <= pos - 1
    /\ pc = "returned" =>
           \A p \in 1..(Len(tokens) + 1) : \A r \in { Reentered(p) } : Advanced(p, r)

\* C17: on every stream the entry point returns, with an expression or with
\* a parse error, and so does parse_expression entered at any cursor of the
\* stream; an expression is returned only when the cursor has advanced, the
\* cursor never moves back, and every node of a returned tree is paid for
\* with a consumed token, so that no loop and no descent repeats without
\* the cursor advancing
C17_Terminates ==
    /\ []Progress
    /\ [][pos' >= pos]_vars

\* parse_expression returned an expression after loops in loops: a call
\* with two arguments one of which is a sum, the whole stream consumed
C17_Witness ==
    /\ pc = "returned"
    /\ entry = "parse_expression"
    /\ result.ok
    /\ pos = Len(tokens) + 1
    /\ result.val.kind = "Call"
    /\ Len(result.val.arguments) = 2
    /\ result.val.arguments[2].kind = "Binary"
    /\ Cardinality(Nodes) = 6
============================================================================
